---- MODULE Spec2Model ----
(***************************************************************************)
(* State-machine model of pymc/PyMCObjects.py: the parent binding map      *)
(* (ParentDict), the closure functions extend_parents / extend_children,   *)
(* the three node kinds (Stochastic, Deterministic, Potential), the value  *)
(* write path of a Stochastic, the log-density read path and the           *)
(* Markov-blanket relations.                                               *)
(*                                                                         *)
(* Objects are integers: 0 is a plain constant parent, 1..MaxNodes are     *)
(* nodes, 101.. are containers of nodes.  A payload (the value of a        *)
(* Stochastic) is a record [id, sh, d]: id is the identity of the Python   *)
(* object, sh its shape ("scalar" or "array"), d its entries.  Entries are *)
(* numbers in half units (3 stands for 1.5), -1 stands for None.           *)
(***************************************************************************)
EXTENDS Integers, Sequences, FiniteSets, TLC

\* ------------------------------------------------------------------ bounds
MaxNodes == 3
MaxObj == 5
MaxRebinds == 2
MaxEntry == 1

\* ------------------------------------------------------------- the objects
Nodes == 1 .. MaxNodes
Consts == {0}
Containers == {101, 102}
Refs == Consts \cup Nodes \cup Containers
Keys == {"mu", "tau"}
Kinds == {"Stochastic", "Deterministic", "Potential"}
Idx == {1, 2}
Entries == 0 .. MaxEntry
NoneEntry == 0 - 1
NaNEntry == 0 - 2

NoValue == [id |-> 0, sh |-> "none", d |-> << >>]
Scalar(i, e) == [id |-> i, sh |-> "scalar", d |-> <<e>>]
Array(i, s) == [id |-> i, sh |-> "array", d |-> s]
NoMissing == [none |-> TRUE, idx |-> {}]
NoCache == [valid |-> FALSE, key |-> [u \in Nodes |-> 0], res |-> 0]

\* A float is a finite number v on an integer scale, or nan, -inf, +inf.
d_neg_inf == 0 - 179
Num(v) == [c |-> "num", v |-> v]
NaN == [c |-> "nan", v |-> 0]
NegInf == [c |-> "ninf", v |-> 0]
PosInf == [c |-> "pinf", v |-> 0]
NoFloat == [c |-> "none", v |-> 0]
\* What a logp function returns: a float, an int, a string or None.
RawFloat(f) == [t |-> "float", f |-> f]
RawInt(v) == [t |-> "int", f |-> Num(v)]
RawStr(f) == [t |-> "str", f |-> f]
RawNone == [t |-> "none", f |-> NoFloat]

NoSaved == [ch |-> << >>, ec |-> << >>]
NoRet == [op |-> "init", node |-> 0, err |-> "ok", key |-> "", old |-> 0, new |-> 0,
          payload |-> NoValue, draw |-> << >>, args |-> {}, members |-> {}, raw |-> RawNone,
          res |-> NoFloat, saved |-> NoSaved]

VARIABLES
    kind,               \* node -> "none" (not constructed) or its class
    parents,            \* node -> the dict content of its ParentDict
    variables,          \* node -> ParentDict.variables as last filed by file_items
    val_keys,           \* node -> ParentDict.val_keys
    children,           \* node -> Variable.children
    extended_parents,   \* node -> owner.extended_parents
    extended_children,  \* node -> Stochastic.extended_children
    value,              \* node -> Stochastic._value
    last_value,         \* node -> Stochastic.last_value (NoValue: attribute not set)
    isdata,             \* node -> Stochastic.isdata
    missing,            \* node -> Stochastic._missing
    rand,               \* node -> whether Stochastic._random is not None
    dtype,              \* node -> Stochastic.dtype: "none", "int" or "float"
    nextId,             \* identity of the next Python object created
    fun,                \* node -> the bound logp / eval function
    ult,                \* node -> ultimate_args of the node's LazyFunction
    cache,              \* node -> the cached result of the node's LazyFunction
    rebound,            \* nodes whose last rebind replaced a Variable by another Variable
    nrebinds,           \* number of __setitem__ calls so far
    ret                 \* outcome of the last operation

graphVars == <<kind, parents, variables, val_keys, children, extended_parents, extended_children>>
valueVars == <<value, last_value, isdata, missing, rand, dtype, nextId>>
evalVars == <<fun, ult, cache>>
vars == <<graphVars, valueVars, evalVars, rebound, nrebinds, ret>>

\* --------------------------------------------------------- isinstance tests
IsVariableIn(kd, r) == r \in Nodes /\ kd[r] \in {"Stochastic", "Deterministic"}
IsVariable(r) == IsVariableIn(kind, r)
IsContainer(r) == r \in Containers
IsStochasticIn(kd, r) == r \in Nodes /\ kd[r] = "Stochastic"
IsDeterministicIn(kd, r) == r \in Nodes /\ kd[r] = "Deterministic"
IsPotentialIn(kd, r) == r \in Nodes /\ kd[r] = "Potential"
has_logp_in(kd, n) == kd[n] \in {"Stochastic", "Potential"}
has_logp(n) == has_logp_in(kind, n)

\* Container.variables / stochastics / deterministics of the two containers
ContainerVariables(c) == IF c = 101 THEN {1} ELSE IF c = 102 THEN {1, 2} ELSE {}
ContainerStochastics(kd, c) == {v \in ContainerVariables(c) : IsStochasticIn(kd, v)}
ContainerDeterministics(kd, c) == {v \in ContainerVariables(c) : IsDeterministicIn(kd, v)}

\* file_items(container, iterable): the flattened set of Variables of a dict
file_items(kd, binds) ==
    {binds[k] : k \in {j \in Keys : IsVariableIn(kd, binds[j])}}
    \cup UNION {ContainerVariables(binds[k]) : k \in {j \in Keys : IsContainer(binds[j])}}

\* DictContainer.val_keys: the keys bound to a Variable or a container
ValKeys(kd, binds) == {k \in Keys : IsVariableIn(kd, binds[k]) \/ IsContainer(binds[k])}

\* ------------------------------------------------------- closure functions
\* extend_parents(parents): ps is the iterable, ep the extended_parents attribute
\* of every node.  Every parent is added; a Deterministic one is removed again and
\* its extended_parents united in; a container stays in the result and has its
\* stochastics and its deterministics' extended_parents united in.
extend_parents_nocollapse(kd, ep, ps) == ps

extend_parents_closes_all(kd, ep, ps) == ps \cup UNION {ep[p] : p \in ps \cap Nodes}

extend_parents(kd, ep, ps) ==
    {p \in ps : ~IsDeterministicIn(kd, p)}
    \cup UNION {ep[p] : p \in {q \in ps : IsDeterministicIn(kd, q)}}
    \cup UNION {ContainerStochastics(kd, c) : c \in {q \in ps : IsContainer(q)}}
    \cup UNION {UNION {ep[v] : v \in ContainerDeterministics(kd, c)} : c \in {q \in ps : IsContainer(q)}}

extend_children_one_level(kd, ch, cs) ==
    (cs \cup UNION {ch[c] : c \in {d \in cs : IsDeterministicIn(kd, d)}})
        \ {d \in cs : IsDeterministicIn(kd, d)}

\* extend_children(children): Deterministic members are replaced by their children
\* until none is left
RECURSIVE extend_children(_, _, _)
extend_children(kd, ch, cs) ==
    LET dtrm_children == {c \in cs : IsDeterministicIn(kd, c)}
        new_children == (cs \cup UNION {ch[c] : c \in dtrm_children}) \ dtrm_children
    IN  IF dtrm_children = {} THEN new_children ELSE extend_children(kd, ch, new_children)

\* ------------------------------------------------ ParentDict attach / detach
\* detach_extended_parents: discard owner from extended_children of its Stochastic
\* extended parents
detach_extended_parents(kd, ep, ec, n) ==
    [p \in Nodes |-> IF p \in ep[n] /\ IsStochasticIn(kd, p) THEN ec[p] \ {n} ELSE ec[p]]

attach_extended_parents_skips(kd, ep, ec, n) == ec

\* attach_extended_parents: add owner to extended_children of its Stochastic
\* extended parents
attach_extended_parents(kd, ep, ec, n) ==
    [p \in Nodes |-> IF p \in ep[n] /\ IsStochasticIn(kd, p) THEN ec[p] \cup {n} ELSE ec[p]]

\* the children part of attach_parents: owner joins children of every Variable
\* it is bound to and of every Variable of a container it is bound to
attach_children(kd, binds, ch, n) ==
    [p \in Nodes |-> IF p \in file_items(kd, binds) THEN ch[p] \cup {n} ELSE ch[p]]

\* the children part of detach_parents: the dict's values are visited in the
\* order given; a Variable has the owner discarded from its children; the first
\* member of a container is asked for an attribute chidren, which no Variable
\* has, and the AttributeError ends the call with the discards made so far
RECURSIVE detach_children(_, _, _, _, _)
detach_children(kd, binds, ch, n, order) ==
    IF order = << >> THEN [err |-> "ok", ch |-> ch]
    ELSE LET r == binds[Head(order)]
         IN  IF IsVariableIn(kd, r)
             THEN detach_children(kd, binds, [ch EXCEPT ![r] = @ \ {n}], n, Tail(order))
             ELSE IF IsContainer(r) /\ ContainerVariables(r) # {}
             THEN [err |-> "AttributeError", ch |-> ch]
             ELSE detach_children(kd, binds, ch, n, Tail(order))

\* the orders in which a dict may hand out its values
KeyOrders == {<<"mu", "tau">>, <<"tau", "mu">>}

\* ------------------------------------------------- Markov-blanket relations
get_coparents(s) == UNION {extended_parents[c] : c \in extended_children[s]} \cup {s}

get_moral_neighbors_keeps_potentials(s) ==
    get_coparents(s) \cup extended_parents[s] \cup extended_children[s]

get_moral_neighbors(s) ==
    {x \in get_coparents(s) \cup extended_parents[s] \cup extended_children[s] :
        ~IsPotentialIn(kind, x)}

get_markov_blanket(s) == get_moral_neighbors(s) \cup {s}

\* ------------------------------------------------------------ LazyFunction
RECURSIVE SeqSum(_)
SeqSum(s) == IF s = << >> THEN 0 ELSE Head(s) + SeqSum(Tail(s))

\* the number a payload stands for when it is an argument of a function
PayloadNum(v) == SeqSum(v.d)

\* the Variables of a container, in a fixed order
RECURSIVE SetToSeq(_)
SetToSeq(S) ==
    IF S = {} THEN << >>
    ELSE LET m == CHOOSE x \in S : \A y \in S : x <= y IN <<m>> \o SetToSeq(S \ {m})

\* arguments.value: the bound references whose values the function reads
ArgRefs(binds) ==
    LET one(r) == IF IsContainer(r) THEN SetToSeq(ContainerVariables(r)) ELSE <<r>>
    IN  one(binds["mu"]) \o one(binds["tau"])

\* the identities of the ultimate arguments' values, which key the cache
CacheKey(cx, n) == [u \in Nodes |-> IF u \in cx.ul[n] THEN cx.val[u].id ELSE 0]

\* cx = [kd, par, val, ul]: classes, bindings, values and ultimate_args in force
RECURSIVE LazyGet(_, _, _)
RECURSIVE SumArgs(_, _, _)

\* the bound function applied to the arguments' current values: the sum of the
\* parents' values plus, for a Stochastic, its own value
LazyCompute(cx, cch, n) ==
    LET a == SumArgs(cx, cch, ArgRefs(cx.par[n]))
        own == IF cx.kd[n] = "Stochastic" THEN PayloadNum(cx.val[n]) ELSE 0
    IN  [res |-> a.res + own, cch |-> a.cch]

SumArgs(cx, cch, rs) ==
    IF rs = << >> THEN [res |-> 0, cch |-> cch]
    ELSE LET r == Head(rs)
             h == IF IsStochasticIn(cx.kd, r) THEN [res |-> PayloadNum(cx.val[r]), cch |-> cch]
                  ELSE IF IsDeterministicIn(cx.kd, r) THEN LazyGet(cx, cch, r)
                  ELSE [res |-> 0, cch |-> cch]
             t == SumArgs(cx, h.cch, Tail(rs))
         IN  [res |-> h.res + t.res, cch |-> t.cch]

\* LazyFunction.get(): the cached result while no ultimate argument's value was
\* replaced since it was computed, a recomputation otherwise
LazyGet(cx, cch, n) ==
    IF cch[n].valid /\ cch[n].key = CacheKey(cx, n)
    THEN [res |-> cch[n].res, cch |-> cch]
    ELSE LET c == LazyCompute(cx, cch, n)
         IN  [res |-> c.res,
              cch |-> [c.cch EXCEPT ![n] = [valid |-> TRUE, key |-> CacheKey(cx, n), res |-> c.res]]]

\* LazyFunction.force_compute(): an unconditional recomputation
force_compute(cx, cch, n) ==
    LET c == LazyCompute(cx, cch, n)
    IN  [c.cch EXCEPT ![n] = [valid |-> TRUE, key |-> CacheKey(cx, n), res |-> c.res]]

\* the result of the arguments computed with no cache at all
RECURSIVE FreshSum(_, _)
FreshArg(cx, r) ==
    IF IsStochasticIn(cx.kd, r) THEN PayloadNum(cx.val[r])
    ELSE IF IsDeterministicIn(cx.kd, r) THEN FreshSum(cx, r)
    ELSE 0
FreshSum(cx, n) ==
    LET rs == ArgRefs(cx.par[n])
    IN  SeqSum([i \in 1 .. Len(rs) |-> FreshArg(cx, rs[i])])
        + (IF cx.kd[n] = "Stochastic" THEN PayloadNum(cx.val[n]) ELSE 0)

\* The bound logp functions.  "sum" returns minus the sum of its arguments; every
\* other one returns 0.0 when the arguments sum to 0 and its own kind of result
\* otherwise.
FunIds == {"sum", "nan", "ninf", "pinf", "sentinel", "below", "above", "int", "numstr", "nanstr",
           "text", "none"}
LogpFun(f, s) ==
    IF f = "sum" THEN RawFloat(Num(0 - s))
    ELSE IF s = 0 THEN RawFloat(Num(0))
    ELSE CASE f = "nan" -> RawFloat(NaN)
           [] f = "ninf" -> RawFloat(NegInf)
           [] f = "pinf" -> RawFloat(PosInf)
           [] f = "sentinel" -> RawFloat(Num(d_neg_inf))
           [] f = "below" -> RawFloat(Num(d_neg_inf - 1))
           [] f = "above" -> RawFloat(Num(d_neg_inf + 1))
           [] f = "int" -> RawInt(0 - s)
           [] f = "numstr" -> RawStr(Num(0 - s))
           [] f = "nanstr" -> RawStr(NaN)
           [] f = "text" -> RawStr(NoFloat)
           [] OTHER -> RawNone

\* ------------------------------------------------- Stochastic: value writes
\* dtype(value) / asarray(value, dtype): "int" truncates an entry, "float" turns
\* None into nan, "none" keeps the entry
CoerceEntry(dt, e) ==
    IF dt = "int" /\ e >= 0 THEN e - (e % 2)
    ELSE IF dt = "float" /\ e = NoneEntry THEN NaNEntry
    ELSE e
CoerceData(dt, d) == [i \in 1 .. Len(d) |-> CoerceEntry(dt, d[i])]

\* bool(self._missing): a non-empty list of indices
HasMissing(mis) == ~mis.none /\ mis.idx # {}

\* the data of copy(self._value) after value[self._missing] = missing_values
MergeMissing(cur, mis, payload) ==
    [i \in 1 .. Len(cur.d) |-> IF i \in mis.idx THEN payload.d[i] ELSE cur.d[i]]

set_value_saves_early(st, payload, nid) ==
    IF st.isdata /\ ~HasMissing(st.missing)
    THEN [err |-> "AttributeError_isdata", value |-> st.value, last_value |-> st.value, nextId |-> nid]
    ELSE [err |-> "ok", value |-> payload, last_value |-> st.value, nextId |-> nid]

set_value_overwrites_all(st, payload, nid) ==
    IF st.isdata /\ ~HasMissing(st.missing)
    THEN [err |-> "AttributeError_isdata", value |-> st.value, last_value |-> st.last_value, nextId |-> nid]
    ELSE [err |-> "ok", value |-> payload, last_value |-> st.value, nextId |-> nid]

set_value_copies_last(st, payload, nid) ==
    IF st.isdata /\ ~HasMissing(st.missing)
    THEN [err |-> "AttributeError_isdata", value |-> st.value, last_value |-> st.last_value, nextId |-> nid]
    ELSE [err |-> "ok", value |-> payload, last_value |-> [st.value EXCEPT !.id = nid], nextId |-> nid + 1]

\* Stochastic.set_value: st = [isdata, missing, dtype, value, last_value] of the
\* node, payload the object assigned, nid the identity of the next object created.
set_value(st, payload, nid) ==
    LET fixed == st.isdata /\ ~HasMissing(st.missing)
        partial == st.isdata /\ HasMissing(st.missing)
        \* value[self._missing] on a payload that cannot be indexed
        unindexable == partial /\ payload.sh # "array"
        v1 == IF partial /\ ~unindexable
              THEN Array(nid, MergeMissing(st.value, st.missing, payload))
              ELSE payload
        nid1 == IF partial /\ ~unindexable THEN nid + 1 ELSE nid
        coerced == CoerceData(st.dtype, v1.d)
        v2 == IF v1.sh = "array"
              THEN IF st.dtype # "none" THEN Array(nid1, coerced) ELSE v1
              ELSE IF st.dtype # "none" /\ coerced # v1.d THEN Scalar(nid1, coerced[1]) ELSE v1
        nid2 == IF v2.id = nid1 THEN nid1 + 1 ELSE nid1
    IN  IF fixed
        THEN [err |-> "AttributeError_isdata", value |-> st.value, last_value |-> st.last_value,
              nextId |-> nid]
        ELSE IF unindexable
        THEN [err |-> "TypeError", value |-> st.value, last_value |-> st.last_value, nextId |-> nid]
        ELSE [err |-> "ok", value |-> v2, last_value |-> st.value, nextId |-> nid2]

revert_through_setter(st) ==
    IF st.isdata /\ ~HasMissing(st.missing)
    THEN [err |-> "AttributeError_isdata", value |-> st.value, last_value |-> st.last_value]
    ELSE [err |-> "ok", value |-> st.last_value, last_value |-> st.value]

\* Stochastic.revert: self._value = self.last_value; reading an attribute that was
\* never assigned raises AttributeError
revert(st) ==
    IF st.last_value = NoValue
    THEN [err |-> "AttributeError_last_value", value |-> st.value, last_value |-> st.last_value]
    ELSE [err |-> "ok", value |-> st.last_value, last_value |-> st.last_value]

\* ------------------------------------------------------------ logp reads
\* float(logp): succeeds on a float, an int and a string that spells a number
ToFloat(raw) ==
    CASE raw.t = "float" -> [ok |-> TRUE, f |-> raw.f]
      [] raw.t = "int" -> [ok |-> TRUE, f |-> raw.f]
      [] raw.t = "str" -> [ok |-> raw.f # NoFloat, f |-> raw.f]
      [] OTHER -> [ok |-> FALSE, f |-> NoFloat]

\* logp <= d_neg_inf on floats
LeSentinel(f) == f.c = "ninf" \/ (f.c = "num" /\ f.v <= d_neg_inf)

get_logp_strict_less(raw) ==
    LET c == ToFloat(raw)
    IN  IF ~c.ok THEN [err |-> "TypeError", res |-> NoFloat]
        ELSE IF c.f.c = "nan" THEN [err |-> "ValueError", res |-> NoFloat]
        ELSE IF c.f.c = "ninf" \/ (c.f.c = "num" /\ c.f.v < d_neg_inf)
        THEN [err |-> "ZeroProbability", res |-> NoFloat]
        ELSE [err |-> "ok", res |-> c.f]

\* Stochastic.get_logp on the evaluator's raw result
Stochastic_get_logp(raw) ==
    LET c == ToFloat(raw)
    IN  IF ~c.ok THEN [err |-> "TypeError", res |-> NoFloat]
        ELSE IF c.f.c = "nan" THEN [err |-> "ValueError", res |-> NoFloat]
        ELSE IF LeSentinel(c.f) THEN [err |-> "ZeroProbability", res |-> NoFloat]
        ELSE [err |-> "ok", res |-> c.f]

\* Potential.get_logp on the evaluator's raw result
Potential_get_logp(raw) ==
    LET c == ToFloat(raw)
    IN  IF ~c.ok THEN [err |-> "TypeError", res |-> NoFloat]
        ELSE IF c.f.c = "nan" THEN [err |-> "ValueError", res |-> NoFloat]
        ELSE IF LeSentinel(c.f) THEN [err |-> "ZeroProbability", res |-> NoFloat]
        ELSE [err |-> "ok", res |-> c.f]

\* ------------------------------------------- assignment of derived quantities
set_derived_accepts(knd) == IF knd = "Stochastic" THEN "ok" ELSE "AttributeError"

\* the property setters Deterministic.set_value(self, value),
\* Potential.set_logp(self, value) and Stochastic.set_logp(self): the first two
\* raise AttributeError; the third is called with one argument more than it takes
set_derived(knd) == IF knd = "Stochastic" THEN "TypeError" ELSE "AttributeError"

\* ------------------------------------------------------------ construction
\* Stochastic.__init__ and the first gen_lazy_function: the initial value.
\* init is the value argument ([sh, d], sh = "none" for None), draw what the
\* random function returns, nid the identity of the next object created.
resolve_value(init, draw, rnd, dt, nid) ==
    LET given == init.sh # "none"
        hasNone == \E i \in 1 .. Len(init.d) : init.d[i] = NoneEntry
        \* asarray(value, dtype=int) on an entry that is None
        castError == given /\ dt = "int" /\ hasNone
        v0 == IF given THEN [id |-> nid, sh |-> init.sh, d |-> CoerceData(dt, init.d)]
              ELSE [id |-> nid, sh |-> draw.sh, d |-> draw.d]
        mis == IF v0.sh = "array"
               THEN [none |-> FALSE, idx |-> {i \in 1 .. Len(v0.d) : v0.d[i] = NoneEntry}]
               ELSE NoMissing
        v1 == [v0 EXCEPT !.d = [i \in 1 .. Len(v0.d) |->
                                    IF i \in mis.idx THEN draw.d[i] ELSE v0.d[i]]]
        \* back in __init__: an array is cast to the declared dtype
        filled == IF v1.sh = "array" /\ dt # "none" THEN [v1 EXCEPT !.d = CoerceData(dt, v1.d)]
                  ELSE v1
    IN  IF castError THEN [err |-> "TypeError", value |-> NoValue, missing |-> NoMissing]
        ELSE IF ~given /\ ~rnd THEN [err |-> "ValueError_no_value", value |-> NoValue, missing |-> NoMissing]
        ELSE IF HasMissing(mis) /\ ~rnd
        THEN [err |-> "ValueError_no_value", value |-> NoValue, missing |-> NoMissing]
        ELSE [err |-> "ok", value |-> filled, missing |-> mis]

\* the ultimate_args gen_lazy_function hands to LazyFunction
ultimate_args(kd, ep, n) == IF kd[n] = "Stochastic" THEN ep[n] \cup {n} ELSE ep[n]

\* the validation of the initial log-probability at the end of __init__
initial_logp(knd, raw) ==
    IF knd = "Stochastic" THEN Stochastic_get_logp(raw)
    ELSE IF knd = "Potential" THEN Potential_get_logp(raw)
    ELSE [err |-> "ok", res |-> NoFloat]

\* every Variable reachable from S through the bindings (S included)
RECURSIVE AncestorsOf(_, _, _)
AncestorsOf(kd, par, S) ==
    LET T == S \cup UNION {file_items(kd, par[m]) : m \in S}
    IN  IF T = S THEN S ELSE AncestorsOf(kd, par, T)

\* the Variables a reference brings: itself, or the members of a container
RefVariables(kd, r) ==
    IF IsVariableIn(kd, r) THEN {r} ELSE IF IsContainer(r) THEN ContainerVariables(r) ELSE {}

\* a reference that can be bound: a constant, a constructed Variable, or a
\* container of constructed Variables
Bindable(r) ==
    \/ r \in Consts
    \/ IsVariable(r)
    \/ IsContainer(r) /\ \A v \in ContainerVariables(r) : IsVariable(v)

\* Node.__init__ of the three classes: ParentDict.__init__, attach_parents,
\* gen_lazy_function, and the check of the initial log-probability.  A constructor
\* that raises returns no object: the node stays unconstructed.
Construct(n, knd, binds, f, isd, rnd, dt, init, draw) ==
    /\ kind[n] = "none"
    /\ \A m \in Nodes : m < n => kind[m] # "none"
    /\ \A k \in Keys : Bindable(binds[k])
    /\ LET kd1 == [kind EXCEPT ![n] = knd]
           rv == IF knd = "Stochastic" THEN resolve_value(init, draw, rnd, dt, nextId)
                 ELSE [err |-> "ok", value |-> NoValue, missing |-> NoMissing]
           vars1 == file_items(kd1, binds)
           ep1 == [extended_parents EXCEPT ![n] = extend_parents(kd1, extended_parents, vars1)]
           ch1 == attach_children(kd1, binds, children, n)
           ec1 == IF has_logp_in(kd1, n)
                  THEN attach_extended_parents(kd1, ep1, extended_children, n)
                  ELSE extended_children
           par1 == [parents EXCEPT ![n] = binds]
           val1 == [value EXCEPT ![n] = rv.value]
           ul1 == [ult EXCEPT ![n] = ultimate_args(kd1, ep1, n)]
           cx == [kd |-> kd1, par |-> par1, val |-> val1, ul |-> ul1]
           cch1 == force_compute(cx, cache, n)
           chk == initial_logp(knd, LogpFun(f, cch1[n].res))
           err == IF rv.err # "ok" THEN rv.err ELSE chk.err
       IN  /\ ret' = [NoRet EXCEPT !.op = "construct", !.node = n, !.err = err,
                                   !.payload = [id |-> 0, sh |-> init.sh, d |-> init.d],
                                   !.draw = IF rnd /\ knd = "Stochastic" THEN draw.d ELSE << >>]
           /\ IF err = "ok"
              THEN /\ kind' = kd1
                   /\ parents' = par1
                   /\ variables' = [variables EXCEPT ![n] = vars1]
                   /\ val_keys' = [val_keys EXCEPT ![n] = ValKeys(kd1, binds)]
                   /\ children' = ch1
                   /\ extended_parents' = ep1
                   /\ extended_children' = ec1
                   /\ value' = val1
                   /\ isdata' = [isdata EXCEPT ![n] = isd /\ knd = "Stochastic"]
                   /\ missing' = [missing EXCEPT ![n] = rv.missing]
                   /\ rand' = [rand EXCEPT ![n] = rnd /\ knd = "Stochastic"]
                   /\ dtype' = [dtype EXCEPT ![n] = IF knd = "Stochastic" THEN dt ELSE "none"]
                   /\ nextId' = IF knd = "Stochastic" THEN nextId + 1 ELSE nextId
                   /\ fun' = [fun EXCEPT ![n] = f]
                   /\ ult' = ul1
                   /\ cache' = cch1
              ELSE UNCHANGED <<graphVars, valueVars, evalVars>>
           /\ UNCHANGED <<last_value, rebound, nrebinds>>

\* ------------------------------------------------------ ParentDict.__setitem__
children_to_leave_always(binds, old) == IF old \in Nodes THEN {old} ELSE {}

\* the Variables whose children.remove(owner) the first half of __setitem__ calls:
\* the old parent, or a member of the old container, when exactly one value of the
\* dict is that very object
children_to_leave(binds, old) ==
    LET claims(v) == Cardinality({k \in Keys : binds[k] = v})
    IN  IF old \in Nodes THEN {v \in {old} : claims(v) = 1}
        ELSE {v \in ContainerVariables(old) : claims(v) = 1}

closure_input_current(vs, binds, key, new) == file_items(kind, [binds EXCEPT ![key] = new])

\* the iterable __setitem__ hands to extend_parents: self.variables, which
\* file_items filed before this call (the new binding is stored afterwards)
closure_input(vs, binds, key, new) == vs

\* done: the members whose children set was already left when a remove() raised
ParentDict_setitem(n, key, new, done) ==
    /\ kind[n] # "none"
    /\ nrebinds < MaxRebinds
    /\ nrebinds' = nrebinds + 1
    /\ Bindable(new)
    /\ n \notin AncestorsOf(kind, parents, RefVariables(kind, new))
    /\ LET old == parents[n][key]
           oldVC == IsVariable(old) \/ IsContainer(old)
           newVC == IsVariable(new) \/ IsContainer(new)
           ec1 == IF oldVC /\ has_logp(n)
                  THEN detach_extended_parents(kind, extended_parents, extended_children, n)
                  ELSE extended_children
           valErr1 == oldVC /\ key \notin val_keys[n]
           vk1 == IF oldVC THEN val_keys[n] \ {key} ELSE val_keys[n]
           drop == IF oldVC THEN children_to_leave(parents[n], old) ELSE {}
           keyErr == ~valErr1 /\ \E v \in drop : n \notin children[v]
           ch1 == [p \in Nodes |-> IF p \in done THEN children[p] \ {n} ELSE children[p]]
           valErr2 == ~valErr1 /\ ~keyErr /\ newVC /\ key \in vk1
           vk2 == IF newVC THEN vk1 \cup {key} ELSE vk1
           attrErr == ~valErr1 /\ ~keyErr /\ ~valErr2 /\ IsContainer(new)
                      /\ ContainerVariables(new) # {}
           ch2 == IF IsVariable(new) THEN [ch1 EXCEPT ![new] = @ \cup {n}] ELSE ch1
           ep2 == [extended_parents EXCEPT
                       ![n] = extend_parents(kind, extended_parents,
                                             closure_input(variables[n], parents[n], key, new))]
           ec2 == IF has_logp(n) THEN attach_extended_parents(kind, ep2, ec1, n) ELSE ec1
           par2 == [parents EXCEPT ![n][key] = new]
           ul2 == [ult EXCEPT ![n] = ultimate_args(kind, ep2, n)]
           cx == [kd |-> kind, par |-> par2, val |-> value, ul |-> ul2]
           err == IF valErr1 \/ valErr2 THEN "ValueError"
                  ELSE IF keyErr THEN "KeyError"
                  ELSE IF attrErr THEN "AttributeError"
                  ELSE "ok"
       IN  /\ done \subseteq drop
           /\ IF valErr1 THEN done = {}
              ELSE IF keyErr THEN \A v \in done : n \in children[v]
              ELSE done = drop
           /\ ret' = [NoRet EXCEPT !.op = "setitem", !.node = n, !.err = err, !.key = key,
                                   !.old = old, !.new = new]
           /\ extended_children' = IF err = "ok" THEN ec2 ELSE ec1
           /\ val_keys' = [val_keys EXCEPT ![n] = IF valErr1 THEN @
                                                  ELSE IF keyErr THEN vk1 ELSE vk2]
           /\ children' = IF err = "ok" THEN ch2 ELSE IF valErr1 THEN children ELSE ch1
           /\ extended_parents' = IF err = "ok" THEN ep2 ELSE extended_parents
           /\ parents' = IF err = "ok" THEN par2 ELSE parents
           /\ variables' = IF err = "ok"
                           THEN [variables EXCEPT ![n] = file_items(kind, par2[n])]
                           ELSE variables
           /\ ult' = IF err = "ok" THEN ul2 ELSE ult
           /\ cache' = IF err = "ok" THEN force_compute(cx, cache, n) ELSE cache
           /\ rebound' = IF err # "ok" THEN rebound
                         ELSE IF IsVariable(old) /\ IsVariable(new) /\ old # new
                         THEN rebound \cup {n}
                         ELSE rebound \ {n}
           /\ UNCHANGED <<kind, valueVars, fun>>

\* ---------------------------------------------------- operations on values
NodeState(n) == [isdata |-> isdata[n], missing |-> missing[n], dtype |-> dtype[n],
                 value |-> value[n], last_value |-> last_value[n]]

\* self.value = payload, the payload being a new object with data d of shape sh
SetValue(n, sh, d) ==
    /\ kind[n] = "Stochastic"
    /\ nextId <= MaxObj
    /\ LET payload == [id |-> nextId, sh |-> sh, d |-> d]
           r == set_value(NodeState(n), payload, nextId + 1)
       IN  /\ value' = [value EXCEPT ![n] = r.value]
           /\ last_value' = [last_value EXCEPT ![n] = r.last_value]
           /\ nextId' = r.nextId
           /\ ret' = [NoRet EXCEPT !.op = "set_value", !.node = n, !.err = r.err,
                                   !.payload = payload]
           /\ UNCHANGED <<graphVars, isdata, missing, rand, dtype, evalVars, rebound, nrebinds>>

\* Stochastic.revert
Revert(n) ==
    /\ kind[n] = "Stochastic"
    /\ LET r == revert(NodeState(n))
       IN  /\ value' = [value EXCEPT ![n] = r.value]
           /\ last_value' = [last_value EXCEPT ![n] = r.last_value]
           /\ ret' = [NoRet EXCEPT !.op = "revert", !.node = n, !.err = r.err]
           /\ UNCHANGED <<graphVars, isdata, missing, rand, dtype, nextId, evalVars, rebound, nrebinds>>

random_assigns_directly(st, rnd, r, nid) ==
    IF rnd THEN [err |-> "ok", value |-> r, last_value |-> st.last_value, nextId |-> nid]
    ELSE [err |-> "AttributeError_random", value |-> st.value, last_value |-> st.last_value,
          nextId |-> nid]

\* Stochastic.random: with a random function, self.value = r through the setter;
\* without one, AttributeError before anything is drawn
random(st, rnd, r, nid) ==
    IF rnd THEN set_value(st, r, nid)
    ELSE [err |-> "AttributeError_random", value |-> st.value, last_value |-> st.last_value,
          nextId |-> nid]

\* Stochastic.random: the draw r is a new object with data d of shape sh
Random(n, sh, d) ==
    /\ kind[n] = "Stochastic"
    /\ nextId <= MaxObj
    /\ LET r == [id |-> nextId, sh |-> sh, d |-> d]
           w == random(NodeState(n), rand[n], r, nextId + 1)
       IN  /\ value' = [value EXCEPT ![n] = w.value]
           /\ last_value' = [last_value EXCEPT ![n] = w.last_value]
           /\ nextId' = IF rand[n] THEN w.nextId ELSE nextId
           /\ ret' = [NoRet EXCEPT !.op = "random", !.node = n, !.err = w.err, !.payload = r]
           /\ UNCHANGED <<graphVars, isdata, missing, rand, dtype, evalVars, rebound, nrebinds>>

\* reading logp of a Stochastic or a Potential
GetLogp(n) ==
    /\ has_logp(n)
    /\ LET cx == [kd |-> kind, par |-> parents, val |-> value, ul |-> ult]
           g == LazyGet(cx, cache, n)
           raw == LogpFun(fun[n], g.res)
           r == IF kind[n] = "Stochastic" THEN Stochastic_get_logp(raw)
                ELSE Potential_get_logp(raw)
       IN  /\ cache' = g.cch
           /\ ret' = [NoRet EXCEPT !.op = "get_logp", !.node = n, !.err = r.err, !.raw = raw,
                                   !.res = r.res]
           /\ UNCHANGED <<graphVars, valueVars, fun, ult, rebound, nrebinds>>

\* reading value of a Deterministic
GetValue(n) ==
    /\ kind[n] = "Deterministic"
    /\ LET cx == [kd |-> kind, par |-> parents, val |-> value, ul |-> ult]
           g == LazyGet(cx, cache, n)
       IN  /\ cache' = g.cch
           /\ ret' = [NoRet EXCEPT !.op = "get_value", !.node = n, !.res = Num(g.res)]
           /\ UNCHANGED <<graphVars, valueVars, fun, ult, rebound, nrebinds>>

\* node.value = payload on a Deterministic, node.logp = payload on a Stochastic or
\* a Potential
Assign(n, payload) ==
    /\ kind[n] # "none"
    /\ ret' = [NoRet EXCEPT !.op = "assign", !.node = n, !.err = set_derived(kind[n]),
                            !.payload = payload]
    /\ UNCHANGED <<graphVars, valueVars, evalVars, rebound, nrebinds>>

\* a call of the module function extend_parents on a set X of nodes and
\* containers
CallExtendParents(X) ==
    /\ X \cap Nodes \subseteq {n \in Nodes : kind[n] # "none"}
    /\ \A c \in X \ Nodes : IsContainer(c) /\ Bindable(c)
    /\ ret' = [NoRet EXCEPT !.op = "extend_parents", !.args = X,
                            !.members = extend_parents(kind, extended_parents, X)]
    /\ UNCHANGED <<graphVars, valueVars, evalVars, rebound, nrebinds>>

\* ParentDict.detach_parents of node n; the sets as they were are kept with the
\* outcome
DetachParents(n, order) ==
    /\ kind[n] # "none"
    /\ LET r == detach_children(kind, parents[n], children, n, order)
       IN  /\ children' = r.ch
           /\ extended_children' =
                  IF r.err = "ok" /\ has_logp(n)
                  THEN detach_extended_parents(kind, extended_parents, extended_children, n)
                  ELSE extended_children
           /\ ret' = [NoRet EXCEPT !.op = "detach", !.node = n, !.err = r.err,
                                   !.saved = [ch |-> children, ec |-> extended_children]]
    /\ UNCHANGED <<kind, parents, variables, val_keys, extended_parents, valueVars, evalVars,
                   rebound, nrebinds>>

\* ParentDict.attach_parents of node n; after a detach_parents of the same node the
\* sets kept by that call are handed on
AttachParents(n) ==
    /\ kind[n] # "none"
    /\ children' = attach_children(kind, parents[n], children, n)
    /\ extended_children' =
           IF has_logp(n)
           THEN attach_extended_parents(kind, extended_parents, extended_children, n)
           ELSE extended_children
    /\ ret' = [NoRet EXCEPT !.op = "attach", !.node = n,
                            !.saved = IF ret.op = "detach" /\ ret.node = n THEN ret.saved
                                      ELSE NoSaved]
    /\ UNCHANGED <<kind, parents, variables, val_keys, extended_parents, valueVars, evalVars,
                   rebound, nrebinds>>

\* a call of the module function extend_children on a seed set X of nodes
CallExtendChildren(X) ==
    /\ X \subseteq {n \in Nodes : kind[n] # "none"}
    /\ ret' = [NoRet EXCEPT !.op = "extend_children", !.args = X,
                            !.members = extend_children(kind, children, X)]
    /\ UNCHANGED <<graphVars, valueVars, evalVars, rebound, nrebinds>>

\* reading S.moral_neighbors
GetMoralNeighbors(s) ==
    /\ kind[s] = "Stochastic"
    /\ ret' = [NoRet EXCEPT !.op = "moral_neighbors", !.node = s,
                            !.members = get_moral_neighbors(s)]
    /\ UNCHANGED <<graphVars, valueVars, evalVars, rebound, nrebinds>>

\* reading S.markov_blanket
GetMarkovBlanket(s) ==
    /\ kind[s] = "Stochastic"
    /\ ret' = [NoRet EXCEPT !.op = "markov_blanket", !.node = s,
                            !.members = get_markov_blanket(s)]
    /\ UNCHANGED <<graphVars, valueVars, evalVars, rebound, nrebinds>>

\* ------------------------------------------------------------ specifications
Init ==
    /\ kind = [n \in Nodes |-> "none"]
    /\ parents = [n \in Nodes |-> [k \in Keys |-> 0]]
    /\ variables = [n \in Nodes |-> {}]
    /\ val_keys = [n \in Nodes |-> {}]
    /\ children = [n \in Nodes |-> {}]
    /\ extended_parents = [n \in Nodes |-> {}]
    /\ extended_children = [n \in Nodes |-> {}]
    /\ value = [n \in Nodes |-> NoValue]
    /\ last_value = [n \in Nodes |-> NoValue]
    /\ isdata = [n \in Nodes |-> FALSE]
    /\ missing = [n \in Nodes |-> NoMissing]
    /\ rand = [n \in Nodes |-> FALSE]
    /\ dtype = [n \in Nodes |-> "none"]
    /\ nextId = 1
    /\ fun = [n \in Nodes |-> "sum"]
    /\ ult = [n \in Nodes |-> {}]
    /\ cache = [n \in Nodes |-> NoCache]
    /\ rebound = {}
    /\ nrebinds = 0
    /\ ret = NoRet

NoInit == [sh |-> "none", d |-> << >>]
ScalarData == {[sh |-> "scalar", d |-> <<e>>] : e \in Entries}
GraphRefs == Consts \cup Nodes

\* building a graph of scalar Stochastics, Deterministics and Potentials
Build ==
    \E n \in Nodes, knd \in Kinds, binds \in [Keys -> GraphRefs] :
        Construct(n, knd, binds, "sum", FALSE, FALSE, "none", [sh |-> "scalar", d |-> <<0>>], NoInit)

\* rebinding a key to a Variable or to a constant
Rebind ==
    \E n \in Nodes, key \in Keys, new \in GraphRefs :
        \E done \in SUBSET children_to_leave(parents[n], parents[n][key]) :
            ParentDict_setitem(n, key, new, done)

Next == Build \/ Rebind

Spec == Init /\ [][Next]_vars

\* construction only: every graph that can be built top-down
SpecBuild == Init /\ [][Build]_vars

\* Values and evaluators: two root Stochastics, then nodes of any class whose "mu"
\* is bound to a root; once the graph is built, rebinds of those nodes to a root,
\* value writes, and reads of their logp and value.
Roots == {1, 2}

BuildEval ==
    \E n \in Nodes, knd \in Kinds, binds \in [Keys -> GraphRefs] :
        /\ n \in Roots => knd = "Stochastic" /\ binds = [k \in Keys |-> 0]
        /\ n \notin Roots => binds["mu"] \in Roots /\ binds["tau"] \in Consts
        /\ Construct(n, knd, binds, "sum", FALSE, FALSE, "none", [sh |-> "scalar", d |-> <<0>>], NoInit)

Built == \A n \in Nodes : kind[n] # "none"

RebindEval ==
    \E n \in Nodes \ Roots, key \in Keys, new \in Roots :
        \E done \in SUBSET children_to_leave(parents[n], parents[n][key]) :
            Built /\ ParentDict_setitem(n, key, new, done)

WriteScalar == \E n \in Nodes, e \in Entries : Built /\ SetValue(n, "scalar", <<e>>)

ReadLogp == \E n \in Nodes \ Roots : Built /\ GetLogp(n)

ReadValue == \E n \in Nodes \ Roots : Built /\ GetValue(n)

NextEval == BuildEval \/ RebindEval \/ WriteScalar \/ ReadLogp \/ ReadValue

SpecEval == Init /\ [][NextEval]_vars

\* One Stochastic without parents: every way to construct it, then value writes,
\* reverts and random draws.
ArrayData == {[sh |-> "array", d |-> <<a, b>>] : a \in Entries, b \in Entries}
ArrayInit == {[sh |-> "array", d |-> <<a, b>>] :
                 a \in Entries \cup {NoneEntry}, b \in Entries \cup {NoneEntry}}
Dtypes == {"none", "int"}
NoBinds == [k \in Keys |-> 0]

BuildValue ==
    \E isd \in BOOLEAN, rnd \in BOOLEAN, dt \in Dtypes,
       init \in {NoInit} \cup ScalarData \cup ArrayInit, draw \in ScalarData \cup ArrayData :
        /\ init.sh # "none" => draw.sh = init.sh
        /\ Construct(1, "Stochastic", NoBinds, "sum", isd, rnd, dt, init, draw)

WriteValue == \E p \in ScalarData \cup ArrayData : SetValue(1, p.sh, p.d)

RevertValue == Revert(1)

DrawValue == \E p \in ScalarData \cup ArrayData : p.sh = value[1].sh /\ Random(1, p.sh, p.d)

NextValue == BuildValue \/ WriteValue \/ RevertValue \/ DrawValue

SpecValue == Init /\ [][NextValue]_vars

\* Log-density reads: a root Stochastic and density-bearing children bound to it,
\* all with the same logp function; writes of the root's value, reads of logp.
BuildLogp ==
    \E n \in Nodes, knd \in {"Stochastic", "Potential"}, f \in FunIds :
        /\ n = 1 => knd = "Stochastic"
        /\ n # 1 => f = fun[1]
        /\ Construct(n, knd, IF n = 1 THEN NoBinds ELSE [NoBinds EXCEPT !["mu"] = 1], f,
                     FALSE, FALSE, "none", [sh |-> "scalar", d |-> <<0>>], NoInit)

WriteRoot == \E e \in Entries : SetValue(1, "scalar", <<e>>)

ReadAnyLogp == \E n \in Nodes : GetLogp(n)

NextLogp == BuildLogp \/ WriteRoot \/ ReadAnyLogp

SpecLogp == Init /\ [][NextLogp]_vars

\* One Stochastic as above, with a declared float dtype among the choices and a
\* logp function that accepts every value; rebinds of its keys to a constant.
AllDtypes == Dtypes \cup {"float"}

BuildMissing ==
    \E isd \in BOOLEAN, rnd \in BOOLEAN, dt \in AllDtypes,
       init \in {NoInit} \cup ArrayInit, draw \in ArrayData :
        Construct(1, "Stochastic", NoBinds, "above", isd, rnd, dt, init, draw)

RebindConstant == \E key \in Keys : ParentDict_setitem(1, key, 0, {})

DrawArray == \E p \in ArrayData : Random(1, p.sh, p.d)

NextMissing == BuildMissing \/ WriteValue \/ RevertValue \/ DrawArray \/ RebindConstant

SpecMissing == Init /\ [][NextMissing]_vars

\* Construction of one Stochastic, every combination of arguments.
BuildResolve ==
    \E isd \in BOOLEAN, rnd \in BOOLEAN, dt \in AllDtypes,
       init \in {NoInit} \cup ScalarData \cup ArrayInit, draw \in ScalarData \cup ArrayData :
        /\ init.sh # "none" => draw.sh = init.sh
        /\ Construct(1, "Stochastic", NoBinds, "above", isd, rnd, dt, init, draw)

SpecResolve == Init /\ [][BuildResolve]_vars

\* Construction of every graph, and reads of the Markov blanket.
ReadBlanket == \E s \in Nodes : GetMarkovBlanket(s)

NextBlanket == Build \/ ReadBlanket

SpecBlanket == Init /\ [][NextBlanket]_vars

\* Construction of every graph, and calls of extend_parents on sets of its nodes.
ApplyExtendParents == \E X \in SUBSET Nodes : CallExtendParents(X)

NextClosure == Build \/ ApplyExtendParents

SpecClosure == Init /\ [][NextClosure]_vars

\* Containers as parents: two root Stochastics, a third node of any class bound
\* to constants, Variables or containers of the roots, and rebinds of its keys.
BuildContainer ==
    \E n \in Nodes, knd \in Kinds, binds \in [Keys -> Refs] :
        /\ n \in Roots => knd = "Stochastic" /\ binds = NoBinds
        /\ Construct(n, knd, binds, "sum", FALSE, FALSE, "none", [sh |-> "scalar", d |-> <<0>>], NoInit)

RebindContainer ==
    \E n \in Nodes \ Roots, key \in Keys, new \in Refs :
        \E done \in SUBSET children_to_leave(parents[n], parents[n][key]) :
            ParentDict_setitem(n, key, new, done)

NextContainer == BuildContainer \/ RebindContainer

SpecContainer == Init /\ [][NextContainer]_vars

\* Bulk detach and attach on graphs with containers.
DetachAny == \E n \in Nodes, order \in KeyOrders : DetachParents(n, order)

AttachAny == \E n \in Nodes : AttachParents(n)

NextDetach == BuildContainer \/ DetachAny \/ AttachAny

SpecDetach == Init /\ [][NextDetach]_vars

\* Construction of every graph, and calls of extend_children on sets of its nodes.
ApplyExtendChildren == \E X \in SUBSET Nodes : CallExtendChildren(X)

NextDescend == Build \/ ApplyExtendChildren

SpecDescend == Init /\ [][NextDescend]_vars

\* Construction of every graph, and calls of extend_parents on sets of its nodes
\* and of containers of its nodes.
ApplyExtendParentsRefs == \E X \in SUBSET (Nodes \cup Containers) : CallExtendParents(X)

NextAscend == Build \/ ApplyExtendParentsRefs

SpecAscend == Init /\ [][NextAscend]_vars

\* Construction of every graph, and reads of the moral neighbours.
ReadMoral == \E s \in Nodes : GetMoralNeighbors(s)

NextMoral == Build \/ ReadMoral

SpecMoral == Init /\ [][NextMoral]_vars

\* Assignments to derived quantities on a built graph, between value writes and
\* reads.
AssignDerived ==
    \E n \in Nodes, p \in ScalarData :
        Built /\ Assign(n, [id |-> 0, sh |-> p.sh, d |-> p.d])

NextAssign == BuildEval \/ WriteScalar \/ ReadLogp \/ ReadValue \/ AssignDerived

SpecAssign == Init /\ [][NextAssign]_vars

\* ------------------------------------------------------------------ claims
Constructed == {n \in Nodes : kind[n] # "none"}
Stochastics == {n \in Nodes : kind[n] = "Stochastic"}
DensityBearing == {n \in Nodes : has_logp(n)}
OtherKey(k) == IF k = "mu" THEN "tau" ELSE "mu"

\* extend_parents computed from scratch over the bindings of n as they stand
ClosureFromScratch(n) == extend_parents(kind, extended_parents, file_items(kind, parents[n]))

\* C1: immediately after a successful rebind on node N, N.extended_parents equals
\* extend_parents computed over N's bindings as they stand after the rebind.
C1_ClosureAfterRebind ==
    (ret.op = "setitem" /\ ret.err = "ok")
        => extended_parents[ret.node] = ClosureFromScratch(ret.node)

\* C2: for every Stochastic P and every density-bearing C, C is in
\* P.extended_children if and only if P is in C.extended_parents.
C2_BidirectionalConsistency ==
    \A P \in Stochastics, C \in DensityBearing :
        (C \in extended_children[P]) <=> (P \in extended_parents[C])

\* C3: an owner is a member of V.children exactly when at least one of its keys is
\* currently bound to V, through any sequence of rebinds among Variables and
\* constants.
C3_ChildRegistration ==
    \A n \in Constructed, V \in Nodes :
        (n \in children[V]) <=> (IsVariable(V) /\ \E k \in Keys : parents[n][k] = V)

\* C3 witness: one of two keys bound to the same V was rebound away from V, the
\* other key still claims V, and the owner is still a child of V.
C3_Witness_SharedParentKept ==
    /\ ret.op = "setitem" /\ ret.err = "ok"
    /\ IsVariable(ret.old)
    /\ parents[ret.node][ret.key] # ret.old
    /\ parents[ret.node][OtherKey(ret.key)] = ret.old
    /\ ret.node \in children[ret.old]

\* C4: for Stochastics A and B, A in B.markov_blanket implies B in
\* A.markov_blanket.
C4_MarkovBlanketSymmetry ==
    \A A \in Stochastics, B \in Stochastics :
        (A \in get_markov_blanket(B)) => (B \in get_markov_blanket(A))

\* the chain of Deterministics above node m, each link having the next one as its
\* only Variable parent; top is the first non-Deterministic ancestor, 0 when the
\* chain breaks
RECURSIVE ChainAbove(_)
ChainAbove(m) ==
    LET ps == file_items(kind, parents[m])
        p == CHOOSE x \in ps : TRUE
    IN  IF Cardinality(ps) # 1 THEN [top |-> 0, links |-> {}]
        ELSE IF kind[p] = "Deterministic"
        THEN LET up == ChainAbove(p) IN [top |-> up.top, links |-> up.links \cup {p}]
        ELSE [top |-> p, links |-> {}]

\* S1 -> D1 (-> further Deterministics) -> S2 with no other parent and no other
\* node hanging off S1 or off a link
IsChain(S1, S2) ==
    /\ kind[S1] = "Stochastic" /\ has_logp(S2)
    /\ ChainAbove(S2).top = S1
    /\ ChainAbove(S2).links # {}
    /\ \A m \in Constructed \ (ChainAbove(S2).links \cup {S2}) :
           file_items(kind, parents[m]) \cap (ChainAbove(S2).links \cup {S1}) = {}

\* C5: for a chain S1 -> D1 -> ... -> S2 built top-down, S2.extended_parents is
\* {S1} and S1.extended_children is {S2}; no Deterministic is in either set.
C5_DeterministicCollapse ==
    \A S1 \in Nodes, S2 \in Nodes :
        IsChain(S1, S2) =>
            /\ extended_parents[S2] = {S1}
            /\ extended_children[S1] = {S2}
            /\ \A x \in extended_parents[S2] \cup extended_children[S1] :
                   kind[x] # "Deterministic"

\* C5 witness: a chain has been built
C5_Witness_ChainBuilt == \E S1 \in Nodes, S2 \in Nodes : IsChain(S1, S2)

\* the result a read of node n computes from the current values of its parents
CurrentCx == [kd |-> kind, par |-> parents, val |-> value, ul |-> ult]
FreshResult(n) == FreshSum(CurrentCx, n)

\* C6: after a successful rebind of N's parent from Variable A to Variable B the
\* evaluator has N's post-rebind extended parents (plus N for a Stochastic) as
\* ultimate arguments, and every later read of N's logp or value is computed from
\* the current values of N's parents, B's included.
C6_ReadAfterRebind ==
    /\ (ret.op = "setitem" /\ ret.err = "ok")
           => ult[ret.node] = ultimate_args(kind, extended_parents, ret.node)
    /\ (ret.op = "get_logp" /\ ret.node \in rebound)
           => ret.raw = LogpFun(fun[ret.node], FreshResult(ret.node))
    /\ (ret.op = "get_value" /\ ret.node \in rebound)
           => ret.res = Num(FreshResult(ret.node))

PartiallyObserved == {n \in Stochastics : isdata[n] /\ HasMissing(missing[n])}
FullyObserved == {n \in Stochastics : isdata[n] /\ ~HasMissing(missing[n])}

\* C7: on a Stochastic with isdata set and a non-empty missing subset M, no
\* operation changes an entry of value outside M, and after each successful write
\* or draw the entries at the indices in M are those of the payload.
C7_PartialObservationWrite ==
    [][\A n \in PartiallyObserved :
           /\ Len(value'[n].d) = Len(value[n].d)
           /\ \A i \in 1 .. Len(value[n].d) :
                  i \notin missing[n].idx => value'[n].d[i] = value[n].d[i]
           /\ (ret'.op \in {"set_value", "random"} /\ ret'.node = n /\ ret'.err = "ok")
                  => \A i \in missing[n].idx : value'[n].d[i] = ret'.payload.d[i]]_vars

\* C7 witness: a write on a partially observed node succeeded although the payload
\* differs from the value at an observed index.
C7_Witness_ObservedKept ==
    /\ ret.op = "set_value" /\ ret.err = "ok"
    /\ ret.node \in PartiallyObserved
    /\ \E i \in 1 .. Len(value[ret.node].d) :
           i \notin missing[ret.node].idx /\ ret.payload.d[i] # value[ret.node].d[i]

\* C8: a write on a Stochastic with isdata set and no (or an empty) missing subset
\* fails with the data-is-fixed error and leaves value and last_value as they were.
C8_FixedDataWrite ==
    [][\A n \in FullyObserved :
           (ret'.op = "set_value" /\ ret'.node = n)
               => /\ ret'.err = "AttributeError_isdata"
                  /\ value'[n] = value[n]
                  /\ last_value'[n] = last_value[n]]_vars

\* C8 witness: a write of a payload that differs from the value was refused.
C8_Witness_WriteRefused ==
    /\ ret.op = "set_value" /\ ret.err = "AttributeError_isdata"
    /\ ret.node \in FullyObserved
    /\ ret.payload.d # value[ret.node].d

\* C9: after a successful write last_value is the very object value was before; a
\* revert makes value that object again, leaves last_value alone and raises
\* nothing, whatever isdata and dtype are; after a revert value and last_value
\* are the same object, so a second revert changes nothing.
C9_WriteRevertRoundTrip ==
    /\ [][\A n \in Stochastics :
              /\ (ret'.op = "set_value" /\ ret'.node = n /\ ret'.err = "ok")
                     => last_value'[n] = value[n]
              /\ (ret'.op = "revert" /\ ret'.node = n /\ last_value[n] # NoValue)
                     => /\ ret'.err = "ok"
                        /\ value'[n] = last_value[n]
                        /\ last_value'[n] = last_value[n]]_vars
    /\ []((ret.op = "revert" /\ ret.err = "ok") => value[ret.node] = last_value[ret.node])

\* C9 witness: a revert on an isdata node with a declared dtype brought back a
\* value that differs from the one it replaced.
C9_Witness_Reverted ==
    /\ ret.op = "revert" /\ ret.err = "ok"
    /\ value[ret.node] = last_value[ret.node]
    /\ \E n \in Stochastics : n = ret.node /\ isdata[n]

\* the outcome the claimed precedence gives for a raw result
Convertible(raw) == raw.t \in {"float", "int"} \/ (raw.t = "str" /\ raw.f.c # "none")
ExpectedError(raw) ==
    IF ~Convertible(raw) THEN "TypeError"
    ELSE IF raw.f.c = "nan" THEN "ValueError"
    ELSE IF raw.f.c = "ninf" \/ (raw.f.c = "num" /\ raw.f.v <= d_neg_inf) THEN "ZeroProbability"
    ELSE "ok"

\* C10: a read of logp, of a Stochastic or of a Potential, has the one outcome the
\* precedence type-conversion error, numeric-validity error, zero-probability
\* error, number gives for the raw result; a returned number is neither NaN nor
\* at or below the sentinel; a failing read changes no value, last_value, binding
\* or registration set.
C10_LogpValidation ==
    /\ [](ret.op = "get_logp" =>
              /\ ret.err = ExpectedError(ret.raw)
              /\ ret.err = "ok" =>
                     /\ ret.res = ret.raw.f
                     /\ ret.res.c \in {"num", "pinf"}
                     /\ ret.res.c = "num" => ret.res.v > d_neg_inf)
    /\ [][(ret'.op = "get_logp" /\ ret'.err # "ok")
              => UNCHANGED <<value, last_value, parents, children, extended_parents,
                             extended_children>>]_vars

\* C10 witness: a Potential whose function returned exactly the sentinel raised
\* the zero-probability error.
C10_Witness_PotentialAtSentinel ==
    /\ ret.op = "get_logp" /\ ret.err = "ZeroProbability"
    /\ ret.raw = RawFloat(Num(d_neg_inf))
    /\ \E n \in Nodes : n = ret.node /\ kind[n] = "Potential"

\* what a read of the derived quantity of n returns or raises in the current state
DerivedRead(n) ==
    LET g == LazyGet(CurrentCx, cache, n)
    IN  IF kind[n] = "Deterministic" THEN [err |-> "ok", res |-> Num(g.res)]
        ELSE IF kind[n] = "Stochastic" THEN Stochastic_get_logp(LogpFun(fun[n], g.res))
        ELSE Potential_get_logp(LogpFun(fun[n], g.res))

\* C11: an assignment to Deterministic.value, Stochastic.logp or Potential.logp
\* fails with an error whatever the payload, changes no graph set and no value,
\* and the next read of the quantity gives what it gave before the attempt.
C11_DerivedNotAssignable ==
    [][ret'.op = "assign" =>
           /\ ret'.err # "ok"
           /\ UNCHANGED <<graphVars, valueVars>>
           /\ \A n \in Nodes : ret'.node = n => DerivedRead(n)' = DerivedRead(n)]_vars

\* C11 witness: an assignment to the logp of a Stochastic whose value had been
\* written was refused.
C11_Witness_StochasticLogpRefused ==
    /\ ret.op = "assign" /\ ret.err # "ok"
    /\ \E n \in Stochastics : n = ret.node /\ last_value[n] # NoValue

\* C12: random() on a Stochastic without a random function fails with the
\* no-random-capability error and leaves value and last_value alone; with one, its
\* effect on value and last_value is that of writing the draw through the value
\* setter: a fully observed node fails with the data-is-fixed error, otherwise
\* last_value becomes the previous value, a partially observed node has only its
\* missing indices overwritten, and the draw is what the call hands back.
C12_RandomDraw ==
    [][\A n \in Stochastics :
           (ret'.op = "random" /\ ret'.node = n) =>
               LET w == set_value(NodeState(n), ret'.payload, ret'.payload.id + 1)
                   same == value'[n] = value[n] /\ last_value'[n] = last_value[n]
               IN  IF ~rand[n] THEN ret'.err = "AttributeError_random" /\ same
                   ELSE /\ ret'.err = w.err
                        /\ value'[n] = w.value
                        /\ last_value'[n] = w.last_value
                        /\ n \in FullyObserved => ret'.err = "AttributeError_isdata" /\ same
                        /\ ret'.err = "ok" => last_value'[n] = value[n]
                        /\ (ret'.err = "ok" /\ n \in PartiallyObserved) =>
                               /\ Len(value'[n].d) = Len(value[n].d)
                               /\ \A i \in 1 .. Len(value[n].d) :
                                      value'[n].d[i] = IF i \in missing[n].idx
                                                       THEN ret'.payload.d[i]
                                                       ELSE value[n].d[i]]_vars

\* C12 witness: a draw on a partially observed node succeeded although it differs
\* from the value at an observed index.
C12_Witness_DrawMerged ==
    /\ ret.op = "random" /\ ret.err = "ok"
    /\ ret.node \in PartiallyObserved
    /\ \E i \in 1 .. Len(value[ret.node].d) :
           i \notin missing[ret.node].idx /\ ret.payload.d[i] # value[ret.node].d[i]

UnsetPositions(d) == {i \in 1 .. Len(d) : d[i] = NoneEntry}

\* C13: a Stochastic constructed from an array with unset entries and with a random
\* function has exactly the unset positions filled from the draw and every other
\* entry as given, and its missing subset is the set of unset positions; no later
\* operation changes the missing subset, and a partial write changes entries at
\* indices of that subset only.
C13_MissingSubsetAgreement ==
    /\ []((ret.op = "construct" /\ ret.err = "ok" /\ ret.payload.sh = "array"
            /\ UnsetPositions(ret.payload.d) # {} /\ rand[ret.node])
           => /\ missing[ret.node] = [none |-> FALSE, idx |-> UnsetPositions(ret.payload.d)]
              /\ \A i \in 1 .. Len(ret.payload.d) :
                     value[ret.node].d[i] = IF i \in UnsetPositions(ret.payload.d)
                                            THEN ret.draw[i]
                                            ELSE ret.payload.d[i])
    /\ [][\A n \in Stochastics :
              /\ missing'[n] = missing[n]
              /\ (n \in PartiallyObserved /\ ret'.op \in {"set_value", "random"}
                      /\ ret'.err = "ok")
                     => /\ Len(value'[n].d) = Len(value[n].d)
                        /\ \A i \in 1 .. Len(value[n].d) :
                               value'[n].d[i] # value[n].d[i] => i \in missing[n].idx]_vars

\* C14: constructing a Stochastic with no initial value uses what the random
\* function draws as the value (an array cast to the declared dtype), and fails
\* with the missing-initial-value error when there is no random function; the
\* same error is raised when the initial value has unset entries and there is no
\* random function.
C14_ConstructionValueResolution ==
    (ret.op = "construct" /\ ret.node = 1) =>
        LET given == ret.payload.sh # "none"
            hasRandom == ret.draw # << >>
        IN  /\ (~given /\ hasRandom)
                   => /\ ret.err = "ok"
                      /\ value[1].d = IF value[1].sh = "array" THEN CoerceData(dtype[1], ret.draw)
                                      ELSE ret.draw
            /\ (~given /\ ~hasRandom) => ret.err = "ValueError_no_value"
            /\ (given /\ UnsetPositions(ret.payload.d) # {} /\ ~hasRandom)
                   => ret.err = "ValueError_no_value"

\* C15: for every Stochastic S, x is a coparent of S exactly when x is S or an
\* extended parent of an extended child of S; the Markov blanket read is the
\* coparents, extended parents, extended children and S with every Potential
\* removed, so it holds S and no Potential; the read changes no set of any node.
C15_MarkovBlanketComposition ==
    /\ [](\A S \in Stochastics :
              /\ \A x \in Nodes :
                     x \in get_coparents(S)
                         <=> (x = S \/ \E C \in extended_children[S] : x \in extended_parents[C])
              /\ ret.op = "markov_blanket" /\ ret.node = S =>
                     /\ \A x \in Nodes :
                            x \in ret.members
                                <=> /\ kind[x] # "Potential"
                                    /\ \/ x = S
                                       \/ x \in extended_parents[S]
                                       \/ x \in extended_children[S]
                                       \/ \E C \in extended_children[S] : x \in extended_parents[C]
                     /\ S \in ret.members
                     /\ \A x \in ret.members : ~IsPotentialIn(kind, x))
    /\ [][ret'.op = "markov_blanket" => UNCHANGED graphVars]_vars

\* C15 witness: the blanket of a Stochastic with a Potential among its extended
\* children was read, and a coparent through that Potential is in it.
C15_Witness_BlanketWithPotentialChild ==
    /\ ret.op = "markov_blanket"
    /\ \E P \in extended_children[ret.node] :
           /\ IsPotentialIn(kind, P)
           /\ \E x \in extended_parents[P] : x # ret.node /\ x \in ret.members

\* C16: extend_parents applied to a set whose members are all Stochastics or
\* Potentials returns that set, and applied to its own result returns it again.
C16_ExtendParentsIdentityOnReduced ==
    (ret.op = "extend_parents" /\ \A x \in ret.args : has_logp(x))
        => /\ ret.members = ret.args
           /\ extend_parents(kind, extended_parents, ret.members) = ret.members

\* C16 witness: extend_parents was called on a set holding a Potential and a
\* Stochastic that has an extended parent outside the set.
C16_Witness_ReducedSetWithParents ==
    /\ ret.op = "extend_parents"
    /\ \A x \in ret.args : has_logp(x)
    /\ \E x \in ret.args : IsPotentialIn(kind, x)
    /\ \E x \in ret.args : IsStochasticIn(kind, x) /\ extended_parents[x] \ ret.args # {}

\* C17: a rebind to or away from a container raises nothing; after a rebind to a
\* container the owner is a child of every Variable in it; after a rebind away
\* from a container the owner is a child of a Variable of that container exactly
\* when its bindings still reference the Variable, directly or through a
\* container.
C17_ContainerRebindPerMember ==
    (ret.op = "setitem" /\ (IsContainer(ret.new) \/ IsContainer(ret.old)))
        => /\ ret.err = "ok"
           /\ IsContainer(ret.new)
                  => \A v \in ContainerVariables(ret.new) : ret.node \in children[v]
           /\ IsContainer(ret.old)
                  => \A v \in ContainerVariables(ret.old) :
                         ret.node \in children[v] <=> v \in file_items(kind, parents[ret.node])

RECURSIVE NearestStochastics(_)
NearestStochastics(r) ==
    IF IsStochasticIn(kind, r) THEN {r}
    ELSE IF IsDeterministicIn(kind, r)
    THEN UNION {NearestStochastics(parents[r][k]) : k \in Keys}
    ELSE IF IsContainer(r) THEN UNION {NearestStochastics(v) : v \in ContainerVariables(r)}
    ELSE {}

LiveClosure(n) == UNION {NearestStochastics(parents[n][k]) : k \in Keys}

\* C19: in every state reached by constructions and rebinds, extended_parents of
\* every node is the set of its nearest Stochastic ancestors under the live
\* bindings, and extended_children of every Stochastic is the set of
\* density-bearing nodes whose live closure holds it.
C19_GraphWideFreshness ==
    /\ \A N \in Constructed : extended_parents[N] = LiveClosure(N)
    /\ \A S \in Stochastics :
           extended_children[S] = {C \in DensityBearing : S \in LiveClosure(C)}

\* C20: in the state a rebind leaves when it raised, extended_parents of the owner
\* is extend_parents of the bindings stored, a density-bearing owner is in
\* extended_children of exactly its extended parents, and the owner is in
\* V.children exactly for the Variables its stored bindings reference.
C20_RebindFailureAtomicity ==
    (ret.op = "setitem" /\ ret.err # "ok")
        => /\ extended_parents[ret.node] = ClosureFromScratch(ret.node)
           /\ has_logp(ret.node)
                  => \A S \in Stochastics :
                         ret.node \in extended_children[S] <=> S \in extended_parents[ret.node]
           /\ \A V \in Nodes :
                  ret.node \in children[V] <=> V \in file_items(kind, parents[ret.node])

\* C21: detach_parents raises nothing and leaves the owner in no children set of a
\* Variable it is bound to, directly or in a container, and, for a
\* density-bearing owner, in no extended_children set of its extended parents;
\* attach_parents raises nothing, and after a detach_parents it gives every
\* children and extended_children set the content it had before the detach.
C21_BulkDetachAttach ==
    /\ ret.op = "detach"
           => /\ ret.err = "ok"
              /\ \A V \in file_items(kind, parents[ret.node]) : ret.node \notin children[V]
              /\ has_logp(ret.node)
                     => \A p \in extended_parents[ret.node] \cap Nodes :
                            ret.node \notin extended_children[p]
    /\ ret.op = "attach"
           => /\ ret.err = "ok"
              /\ ret.saved # NoSaved
                     => children = ret.saved.ch /\ extended_children = ret.saved.ec

\* every node reachable from the set S by children links that leave a
\* Deterministic, S included
RECURSIVE ReachedThroughDeterministics(_)
ReachedThroughDeterministics(S) ==
    LET T == S \cup UNION {children[d] : d \in {x \in S : IsDeterministicIn(kind, x)}}
    IN  IF T = S THEN S ELSE ReachedThroughDeterministics(T)

\* C22: extend_children returns exactly the non-Deterministic nodes reachable from
\* the seed by children links through Deterministic nodes only, the
\* non-Deterministic members of the seed included; no Deterministic is in the
\* result.
C22_ExtendChildrenDescendants ==
    ret.op = "extend_children"
        => /\ ret.members = {x \in ReachedThroughDeterministics(ret.args) :
                                 ~IsDeterministicIn(kind, x)}
           /\ \A x \in ret.members : ~IsDeterministicIn(kind, x)

\* C22 witness: the seed held a Deterministic whose only child is a Deterministic
\* again, and the result holds the child of that one.
C22_Witness_TwoLevelsDown ==
    /\ ret.op = "extend_children"
    /\ \E d \in ret.args :
           /\ IsDeterministicIn(kind, d)
           /\ \E e \in children[d] :
                  /\ IsDeterministicIn(kind, e) /\ e \notin ret.args
                  /\ \E x \in children[e] : x \in ret.members

\* C23: extend_parents applied to Stochastics, Deterministics and containers
\* returns exactly the Stochastics given, the extended_parents of every
\* Deterministic given, the stochastics of every container given and the
\* extended_parents of every container's deterministics; no Deterministic and no
\* container is in the result.
C23_ExtendParentsOnlyDensityBearing ==
    (ret.op = "extend_parents"
         /\ \A x \in ret.args : IsVariable(x) \/ IsContainer(x))
        => /\ ret.members =
                  {x \in ret.args : IsStochasticIn(kind, x)}
                  \cup UNION {extended_parents[d] : d \in {x \in ret.args : IsDeterministicIn(kind, x)}}
                  \cup UNION {{v \in ContainerVariables(c) : IsStochasticIn(kind, v)} :
                                  c \in ret.args \cap Containers}
                  \cup UNION {UNION {extended_parents[v] :
                                         v \in {w \in ContainerVariables(c) : IsDeterministicIn(kind, w)}} :
                                  c \in ret.args \cap Containers}
           /\ \A x \in ret.members : ~IsDeterministicIn(kind, x) /\ ~IsContainer(x)

\* C24: for every Stochastic S, S is not in the moral_neighbors read, and
\* S.markov_blanket is that set with S added.
C24_MoralNeighborsExcludeSelf ==
    ret.op = "moral_neighbors"
        => /\ ret.node \notin ret.members
           /\ get_markov_blanket(ret.node) = ret.members \cup {ret.node}

====
